---- MODULE Spec2Model ----
(***************************************************************************)
(* The token alert poller of src/index.js (current revision, lines         *)
(* 215-471): mainLoop, checkPumpTokens, checkOtherDexTokens, the two       *)
(* LRU/TTL ledgers trackedMidTier and trackedHighTier, the p-limit         *)
(* limiter and the Discord senders.                                        *)
(*                                                                         *)
(* Time is counted in minutes (Date.now() / 60000); the TTLs of the        *)
(* caches, given in milliseconds in the source, are converted.  One step   *)
(* of the model is one continuation of the JavaScript event loop: the      *)
(* code from one await to the next.                                        *)
(*                                                                         *)
(* Specifications:                                                         *)
(*   Spec          the program, with the clock                             *)
(*   SpecReentry   the program with calls of mainLoop during a round       *)
(*   SpecLimit     the program fed candidate lists that fill the limiter   *)
(*   SpecFixed     the program on tokens whose creation time is fixed      *)
(*   SpecListing   the program with longer profile lists                   *)
(*   SpecLoop      the program without the clock, under fairness           *)
(*   SpecFeeds     one feed call, attempt by attempt (retry)               *)
(*   SpecClassify  the classification of one snapshot (lines 395-400)      *)
(***************************************************************************)
EXTENDS Integers, Sequences, FiniteSets, Bags, TLC

\* ---------------------------------------------------------------- bounds
Tokens == {"X", "Y"}
MaxProfiles == 1    \* longest profile list
MaxPairs == 2       \* longest pair list of one profile
MaxTasks == 2       \* most per-token tasks alive at once (bounds the candidate list)
MaxTicks == 2       \* clock advances
MaxOutcomes == 4    \* attempts of one feed call whose outcome is drawn
MaxBurst == 6       \* tasks alive at once in the runs that fill the limiter
MaxListed == 3      \* profiles of one round in the runs of the secondary check
TickSteps == {110}

\* ------------------------------------------------------ program constants
MidFloor == 16900
HighFloor == 80000
PreFilterAge == 20
MidAgeCeil == 20
HighAgeCeil == 120
MidTtl == 20
HighTtl == 120
CacheMax == 1000
Concurrency == 5
FastInterval == 15000
DefaultInterval == 30000
MinBuys5m == 5
MinVolume5m == 500
DeliveryAttempts == 1   \* webhookClient.send calls of one sendToDiscord call
Retries == 3
RetryDelayMs == 500

PUMP_DEXES == {"pumpfun", "pumpswap"}

\* An optional value: <<>> is null/undefined, <<v>> is the value v.
None == <<>>
Some(v) == <<v>>
\* a ?? d
Coalesce(a, d) == IF a = None THEN d ELSE a[1]

VARIABLES
  now,              \* Date.now(), minutes
  ticks,            \* clock advances so far
  trackedMidTier,   \* LRU cache: sequence of [key, start], least recent first
  trackedHighTier,
  pollInterval,
  isRunning,
  pc,               \* where mainLoop is suspended
  running,          \* bag of per-token tasks started by the limiter
  queue,            \* tasks waiting in the limiter, in order
  sentCount,        \* [pump |-> sentCount of checkPumpTokens, other |-> of checkOtherDexTokens]
  profiles,         \* profiles still to process; the head is the current one
  ev,               \* what the last step did to the channels and the round
  changed           \* a ledger's contents changed since the round began

VARIABLE
  call              \* the function call followed step by step (Idle in the program runs)

VARIABLE
  timers            \* calls of mainLoop pending: line 471 at first, then setTimeout

vars == <<now, ticks, trackedMidTier, trackedHighTier, pollInterval, isRunning, timers, pc,
          running, queue, sentCount, profiles, ev, changed, call>>

Idle == [fn |-> "none"]

\* ------------------------------------------------------------ LRU cache
\* lru-cache: an entry is stale once its age exceeds the ttl.
IsStale(e, ttl, t) == t - e.start > ttl

\* cache.has(k): present and not stale; has() neither deletes nor touches.
Has(c, ttl, k, t) == \E i \in 1..Len(c) : c[i].key = k /\ ~IsStale(c[i], ttl, t)

Without(c, k) == SelectSeq(c, LAMBDA e : e.key # k)

\* cache.set(k, t): the entry becomes the most recent one with a fresh
\* start; a new key in a full cache evicts the least recent entry.
CacheSet(c, k, t) ==
  LET present == \E i \in 1..Len(c) : c[i].key = k
      rest == IF present THEN Without(c, k)
              ELSE IF Len(c) >= CacheMax THEN Tail(c) ELSE c
  IN Append(rest, [key |-> k, start |-> t])

HasMidLongTtl(k) == Has(trackedMidTier, HighTtl, k, now)
HasMid(k) == Has(trackedMidTier, MidTtl, k, now)
HasHigh(k) == Has(trackedHighTier, HighTtl, k, now)

\* ------------------------------------------------------------- helpers
\* new Date(s).getTime() of a string that is not a date is NaN, written
\* here as a number no clock reading or timestamp takes.  Arithmetic on
\* NaN gives NaN and every comparison with NaN is false.
NaN == -999999
JsLeq(a, b) == a # NaN /\ b # NaN /\ a <= b
JsGt(a, b) == a # NaN /\ b # NaN /\ a > b

\* getTokenAgeMinutes(date)
getTokenAgeMinutes(date, t) == IF date = NaN THEN NaN ELSE t - date

NoEvent == [send |-> None, ok |-> None, fail |-> None, skip |-> None, end |-> "none",
            sent |-> 0, call |-> "none"]

\* ------------------------------------------------------------- inputs
\* What the discovery feed can return for one candidate.
FdvChoices == {16899, 16900}
CandidateAges == {20, 21}
Candidates(t) ==
  [tokenAddress : Tokens, fullyDilutedValuation : FdvChoices,
   createdAt : {t - a : a \in CandidateAges}]

\* What the enrichment feed can return for one token: null, or a snapshot
\* whose marketCap and pairCreatedAt may each be missing, and whose
\* pairCreatedAt may be no date.
McapChoices == {16900, 80000}
SnapshotAges == {20, 21, 120, 121}
Snapshots(t) ==
  {None} \cup
  {Some(d) : d \in [marketCap : {None} \cup {Some(m) : m \in McapChoices},
                    pairCreatedAt : {None, Some(NaN)} \cup {Some(t - a) : a \in SnapshotAges}]}

\* What the secondary listing feed can return for one pair.
PairChoices(t) ==
  { [dexId |-> "raydium", fdv |-> 16900, buys5m |-> 5, volume5m |-> 500, pairCreatedAt |-> t - 20],
    [dexId |-> "pumpswap", fdv |-> 16900, buys5m |-> 5, volume5m |-> 500, pairCreatedAt |-> t - 20],
    [dexId |-> "raydium", fdv |-> 16899, buys5m |-> 5, volume5m |-> 500, pairCreatedAt |-> t - 20],
    [dexId |-> "raydium", fdv |-> 16900, buys5m |-> 4, volume5m |-> 500, pairCreatedAt |-> t - 20],
    [dexId |-> "raydium", fdv |-> 16900, buys5m |-> 5, volume5m |-> 499, pairCreatedAt |-> t - 20],
    [dexId |-> "raydium", fdv |-> 16900, buys5m |-> 5, volume5m |-> 500, pairCreatedAt |-> t - 21] }

SeqsUpTo(S, n) == UNION {[1..k -> S] : k \in 0..n}

\* ---------------------------------------------------- checkPumpTokens
\* line 390: the pre-filter on the raw candidate
PreFilterRejects(fdv, age) == fdv < MidFloor \/ JsGt(age, PreFilterAge)

\* lines 399-400
shouldSendMidStrict(mcap, ageMinutes) ==
  mcap > MidFloor /\ mcap < HighFloor /\ JsLeq(ageMinutes, MidAgeCeil)
shouldSendMid(mcap, ageMinutes) ==
  mcap >= MidFloor /\ mcap < HighFloor /\ JsLeq(ageMinutes, MidAgeCeil)
shouldSendHigh(mcap, ageMinutes) ==
  mcap >= HighFloor /\ JsLeq(ageMinutes, HighAgeCeil)

\* lines 395-400: the classification of a snapshot
Classify(details, createdAt, t) ==
  LET mcap == Coalesce(details.marketCap, 0)
      tokenCreatedAt == Coalesce(details.pairCreatedAt, createdAt)
      ageMinutes == getTokenAgeMinutes(tokenCreatedAt, t)
  IN [mid |-> shouldSendMid(mcap, ageMinutes), high |-> shouldSendHigh(mcap, ageMinutes)]

\* lines 402 and 408: the conditions of the two sends
NotifyMidNoLedger(should, ca) == should
NotifyMid(should, ca) == should /\ ~HasMid(ca)
NotifyHigh(should, ca) == should /\ ~HasHigh(ca)

\* sendToDiscord awaits webhookClient.send without a try/catch: it returns
\* when the delivery succeeded and throws when it failed.
sendToDiscordSwallow(delivered) == "returned"
sendToDiscord(delivered) == IF delivered THEN "returned" ELSE "threw"
sendToDiscordAlt(delivered) == IF delivered THEN "returned" ELSE "threw"

\* p-limit: a queued function starts as soon as fewer than Concurrency are
\* active.  A started task runs lines 386-392: it returns at the pre-filter
\* or suspends in fetchDexscreenerDetails.
RECURSIVE StartQueuedUnlimited(_, _, _)
StartQueuedUnlimited(r, q, t) ==
  IF q = <<>>
  THEN [running |-> r, queue |-> q]
  ELSE LET c == Head(q)
       IN StartQueuedUnlimited(r (+) SetToBag({[ca |-> c.ca, createdAt |-> c.createdAt,
                                                st |-> "fetch", hi |-> FALSE,
                                                cur |-> c.cur]}),
                               Tail(q), t)

RECURSIVE StartQueued(_, _, _)
StartQueued(r, q, t) ==
  IF q = <<>> \/ BagCardinality(r) >= Concurrency
  THEN [running |-> r, queue |-> q]
  ELSE LET c == Head(q)
           age == getTokenAgeMinutes(c.createdAt, t)
       IN IF PreFilterRejects(c.fdv, age)
          THEN StartQueued(r, Tail(q), t)
          ELSE StartQueued(r (+) SetToBag({[ca |-> c.ca, createdAt |-> c.createdAt,
                                            st |-> "fetch", hi |-> FALSE, cur |-> c.cur]}),
                           Tail(q), t)

\* tokens.map(token => limit(...))
Enqueue(q, tokens) ==
  q \o [i \in 1..Len(tokens) |->
          [ca |-> tokens[i].tokenAddress, fdv |-> tokens[i].fullyDilutedValuation,
           createdAt |-> tokens[i].createdAt, cur |-> TRUE]]

\* Promise.all resolves once every task of the round has fulfilled.
AllSettled(r, q) ==
  /\ \A x \in BagToSet(r) : ~x.cur
  /\ \A i \in 1..Len(q) : ~q[i].cur

LiveTasks == BagCardinality(running) + Len(queue)

\* The tasks of a round whose Promise.all has rejected keep running, but
\* no longer belong to a round.
Orphan(x) == [x EXCEPT !.cur = FALSE]
OrphanBag(r) ==
  LET S == BagToSet(r)
      Count(x) == IF x \in S THEN r[x] ELSE 0
  IN [y \in {Orphan(x) : x \in S} |-> Count(y) + Count([y EXCEPT !.cur = TRUE])]
OrphanSeq(q) == [i \in 1..Len(q) |-> Orphan(q[i])]

\* The record of a notification in ev: the token, the channel, the sender
\* ("task" of checkPumpTokens or "other" for checkOtherDexTokens) and
\* whether the sender belongs to the round in progress.
Notice(ca, tier, by, cur) == Some([ca |-> ca, tier |-> tier, by |-> by, cur |-> cur])
\* A notification given up, with the deliveries attempted for it.
GivenUp(ca, tier, by, cur) ==
  Some([ca |-> ca, tier |-> tier, by |-> by, cur |-> cur, attempts |-> DeliveryAttempts])
\* What the channel saw of a send that settled.
Settled(delivered, ca, tier, by, cur) ==
  [NoEvent EXCEPT !.ok = IF delivered THEN Notice(ca, tier, by, cur) ELSE None,
                  !.fail = IF delivered THEN None ELSE GivenUp(ca, tier, by, cur)]

\* ------------------------------------------------------------- mainLoop
Boot ==
  /\ now = 0
  /\ ticks = 0
  /\ trackedMidTier = <<>>
  /\ trackedHighTier = <<>>
  /\ pollInterval = DefaultInterval
  /\ isRunning = FALSE
  /\ timers = 1
  /\ pc = "timer"
  /\ running = EmptyBag
  /\ queue = <<>>
  /\ sentCount = [pump |-> 0, other |-> 0]
  /\ profiles = <<>>
  /\ ev = NoEvent
  /\ changed = FALSE

Init ==
  /\ Boot
  /\ call = Idle

\* line 454: if (isRunning) return;
ReentryGuardMissing(r) == FALSE
ReentryGuard(r) == r

\* lines 453-458: a call of mainLoop.  Behind the guard, checkPumpTokens
\* suspends in fetchNewMoralisTokens.
mainLoop ==
  IF ReentryGuard(isRunning)
  THEN /\ ev' = [NoEvent EXCEPT !.call = "returned"]
       /\ UNCHANGED <<isRunning, pc, sentCount, changed>>
  ELSE /\ isRunning' = TRUE
       /\ pc' = "pumpFetch"
       /\ sentCount' = [pump |-> 0, other |-> 0]
       /\ ev' = [NoEvent EXCEPT !.call = "started"]
       /\ changed' = FALSE

\* line 471 and line 467: the first call, and the timer armed by the
\* round before
MainLoop ==
  /\ UNCHANGED call
  /\ timers > 0
  /\ timers' = timers - 1
  /\ mainLoop
  /\ UNCHANGED <<now, ticks, trackedMidTier, trackedHighTier, pollInterval, running,
                 queue, profiles>>

\* A call of mainLoop from elsewhere while a round is in progress.
StrayCall ==
  /\ UNCHANGED <<call, timers>>
  /\ isRunning
  /\ mainLoop
  /\ UNCHANGED <<now, ticks, trackedMidTier, trackedHighTier, pollInterval, running,
                 queue, profiles>>

\* lines 461-468 on the normal path
RoundEnd(total, e) ==
  /\ pollInterval' = IF total >= 2 THEN FastInterval ELSE DefaultInterval
  /\ isRunning' = FALSE
  /\ timers' = timers + 1
  /\ pc' = "timer"
  /\ sentCount' = [pump |-> 0, other |-> 0]
  /\ ev' = [e EXCEPT !.end = "ok", !.sent = total]

RoundErrorNoTimer(total, e) ==
  /\ isRunning' = FALSE
  /\ pc' = "timer"
  /\ sentCount' = [pump |-> 0, other |-> 0]
  /\ ev' = [e EXCEPT !.end = "error", !.sent = total]
  /\ UNCHANGED <<pollInterval, timers>>

\* lines 463-468: catch and finally; pollInterval is not assigned
RoundError(total, e) ==
  /\ isRunning' = FALSE
  /\ timers' = timers + 1
  /\ pc' = "timer"
  /\ sentCount' = [pump |-> 0, other |-> 0]
  /\ ev' = [e EXCEPT !.end = "error", !.sent = total]
  /\ UNCHANGED pollInterval

\* ------------------------------------------------- checkOtherDexTokens
\* line 438 and line 431
Qualifies(pair, t) ==
  /\ pair.dexId \notin PUMP_DEXES
  /\ pair.fdv >= MidFloor
  /\ pair.buys5m >= MinBuys5m
  /\ pair.volume5m >= MinVolume5m
  /\ JsLeq(getTokenAgeMinutes(pair.pairCreatedAt, t), MidAgeCeil)

\* line 426: profiles whose token is in either ledger are passed over
SkipNone(ps, mid, high, t) == ps
RECURSIVE SkipTracked(_, _, _, _)
SkipTracked(ps, mid, high, t) ==
  IF ps = <<>> THEN ps
  ELSE IF Has(mid, MidTtl, Head(ps), t) \/ Has(high, HighTtl, Head(ps), t)
       THEN SkipTracked(Tail(ps), mid, high, t)
       ELSE ps

\* The for loop of lines 424-445 from the profiles ps on, up to its next
\* await (fetchTokenPairs), or to the end of the round.
OtherLoop(ps, mid, cnt, e) ==
  LET rest == SkipTracked(ps, mid, trackedHighTier, now)
  IN /\ profiles' = rest
     /\ IF rest = <<>>
        THEN RoundEnd(cnt.pump + cnt.other, e)
        ELSE /\ pc' = "otherPairs"
             /\ sentCount' = cnt
             /\ ev' = e
             /\ UNCHANGED <<pollInterval, isRunning, timers>>

\* ---------------------------------------------------- checkPumpTokens
\* lines 382-392: the candidates arrive and are handed to the limiter
PumpFetchedFrom(C, n) ==
  /\ UNCHANGED call
  /\ pc = "pumpFetch"
  /\ \E tokens \in SeqsUpTo(C, n - LiveTasks) :
       /\ LET s == StartQueued(running, Enqueue(queue, tokens), now)
          IN /\ running' = s.running
             /\ queue' = s.queue
             /\ pc' = IF AllSettled(s.running, s.queue) THEN "otherFetch" ELSE "pumpAll"
  /\ ev' = NoEvent
  /\ UNCHANGED <<now, ticks, trackedMidTier, trackedHighTier, pollInterval, isRunning, timers,
                 sentCount, profiles, changed>>

PumpFetched == PumpFetchedFrom(Candidates(now), MaxTasks)

\* A task returns: the limiter starts the next one, and Promise.all
\* resolves when it was the last of the round (lines 413-416, 459).
TaskReturns(task) ==
  LET s == StartQueued(running (-) SetToBag({task}), queue, now)
  IN /\ running' = s.running
     /\ queue' = s.queue
     /\ pc' = IF pc = "pumpAll" /\ AllSettled(s.running, s.queue) THEN "otherFetch" ELSE pc

\* The task goes on to the await of a sendToDiscord call.
TaskSends(task, tier, hi) ==
  /\ running' = (running (-) SetToBag({task}))
                  (+) SetToBag({[task EXCEPT !.st = tier, !.hi = hi]})
  /\ UNCHANGED <<queue, pc>>

\* lines 392-408: the snapshot arrives (or null after the retries)
DetailsArrive(task, details) ==
  IF details = None
  THEN /\ TaskReturns(task)
       /\ ev' = NoEvent
  ELSE LET tier == Classify(details[1], task.createdAt, now)
           mid == tier.mid
           high == tier.high
       IN IF NotifyMid(mid, task.ca)
          THEN /\ TaskSends(task, "Mid", high)
               /\ ev' = [NoEvent EXCEPT !.send = Notice(task.ca, "Mid", "task", task.cur)]
          ELSE IF NotifyHigh(high, task.ca)
          THEN /\ TaskSends(task, "High", high)
               /\ ev' = [NoEvent EXCEPT
                           !.send = Notice(task.ca, "High", "task", task.cur),
                           !.skip = IF mid THEN Notice(task.ca, "Mid", "task", task.cur)
                                    ELSE None]
          ELSE /\ TaskReturns(task)
               /\ ev' = [NoEvent EXCEPT
                           !.skip = IF mid THEN Notice(task.ca, "Mid", "task", task.cur)
                                    ELSE IF high
                                    THEN Notice(task.ca, "High", "task", task.cur)
                                    ELSE None]

\* lines 392-408: fetchDexscreenerDetails returns to a task
DetailsFetchedFrom(S) ==
  /\ UNCHANGED call
  /\ \E task \in BagToSet(running), details \in S :
       /\ task.st = "fetch"
       /\ DetailsArrive(task, details)
  /\ UNCHANGED <<now, ticks, trackedMidTier, trackedHighTier, pollInterval, isRunning, timers,
                 sentCount, profiles, changed>>

DetailsFetched == DetailsFetchedFrom(Snapshots(now))

\* lines 403-412: the delivery of a task's notification settles
SendDone ==
  /\ UNCHANGED call
  /\ \E task \in BagToSet(running), delivered \in BOOLEAN :
       /\ task.st \in {"Mid", "High"}
       /\ IF sendToDiscord(delivered) = "threw"
          THEN \* the task rejects; the first rejection of a round rejects Promise.all
               LET s == StartQueued(running (-) SetToBag({task}), queue, now)
                   e == Settled(delivered, task.ca, task.st, "task", task.cur)
               IN /\ UNCHANGED <<trackedMidTier, trackedHighTier>>
                  /\ IF task.cur
                     THEN /\ running' = OrphanBag(s.running)
                          /\ queue' = OrphanSeq(s.queue)
                          /\ RoundError(sentCount.pump, e)
                     ELSE /\ running' = s.running
                          /\ queue' = s.queue
                          /\ pc' = IF pc = "pumpAll" /\ AllSettled(s.running, s.queue)
                                   THEN "otherFetch" ELSE pc
                          /\ ev' = e
                          /\ UNCHANGED <<pollInterval, isRunning, timers, sentCount>>
          ELSE LET ok == Settled(delivered, task.ca, task.st, "task", task.cur)
               IN /\ sentCount' = IF task.cur THEN [sentCount EXCEPT !.pump = @ + 1]
                                  ELSE sentCount
                  /\ UNCHANGED <<pollInterval, isRunning, timers>>
                  /\ IF task.st = "Mid"
                     THEN /\ trackedMidTier' = CacheSet(trackedMidTier, task.ca, now)
                          /\ UNCHANGED trackedHighTier
                          /\ IF NotifyHigh(task.hi, task.ca)
                             THEN /\ TaskSends(task, "High", task.hi)
                                  /\ ev' = [ok EXCEPT
                                      !.send = Notice(task.ca, "High", "task", task.cur)]
                             ELSE /\ TaskReturns(task)
                                  /\ ev' = ok
                     ELSE /\ trackedHighTier' = CacheSet(trackedHighTier, task.ca, now)
                          /\ UNCHANGED trackedMidTier
                          /\ TaskReturns(task)
                          /\ ev' = ok
  /\ changed' = (changed \/ trackedMidTier' # trackedMidTier \/ trackedHighTier' # trackedHighTier)
  /\ UNCHANGED <<now, ticks, profiles>>

\* ------------------------------------------------- checkOtherDexTokens
\* lines 421-428: the profiles arrive (or [] after the retries)
ProfilesArrive(ps) ==
  /\ pc = "otherFetch"
  /\ OtherLoop(ps, trackedMidTier, sentCount, NoEvent)
  /\ UNCHANGED <<now, ticks, trackedMidTier, trackedHighTier, running, queue, changed>>

ProfilesFetched ==
  /\ UNCHANGED call
  /\ \E ps \in SeqsUpTo(Tokens, MaxProfiles) : ProfilesArrive(ps)

\* lines 428-439: the pairs of the current profile arrive
PairsFetched ==
  /\ UNCHANGED call
  /\ pc = "otherPairs"
  /\ \E pairs \in SeqsUpTo(PairChoices(now), MaxPairs) :
       IF \E i \in 1..Len(pairs) : Qualifies(pairs[i], now)
       THEN /\ pc' = "otherSend"
            /\ ev' = [NoEvent EXCEPT !.send = Notice(Head(profiles), "Mid", "other", TRUE)]
            /\ UNCHANGED <<profiles, pollInterval, isRunning, timers, sentCount>>
       ELSE OtherLoop(Tail(profiles), trackedMidTier, sentCount, NoEvent)
  /\ UNCHANGED <<now, ticks, trackedMidTier, trackedHighTier, running, queue, changed>>

\* lines 439-442: the delivery of sendToDiscordAlt settles
AltSendSettles ==
  /\ pc = "otherSend"
  /\ \E delivered \in BOOLEAN :
       IF sendToDiscordAlt(delivered) = "threw"
       THEN /\ RoundError(sentCount.pump + sentCount.other,
                            Settled(delivered, Head(profiles), "Mid", "other", TRUE))
            /\ profiles' = <<>>
            /\ UNCHANGED <<trackedMidTier, running, queue>>
       ELSE LET mid == CacheSet(trackedMidTier, Head(profiles), now)
            IN /\ trackedMidTier' = mid
               /\ OtherLoop(Tail(profiles), mid, [sentCount EXCEPT !.other = @ + 1],
                            Settled(delivered, Head(profiles), "Mid", "other", TRUE))
               /\ UNCHANGED <<running, queue>>
  /\ UNCHANGED <<now, ticks, trackedHighTier>>
  /\ changed' = (changed \/ trackedMidTier' # trackedMidTier \/ trackedHighTier' # trackedHighTier)

AltSendDone ==
  /\ UNCHANGED call
  /\ AltSendSettles

\* ---------------------------------------------------------------- clock
TickBy(S) ==
  /\ UNCHANGED call
  /\ ticks < MaxTicks
  /\ \E d \in S : now' = now + d
  /\ ticks' = ticks + 1
  /\ ev' = NoEvent
  /\ UNCHANGED <<trackedMidTier, trackedHighTier, pollInterval, isRunning, timers, pc, running,
                 queue, sentCount, profiles, changed>>

Tick == TickBy(TickSteps)

Next ==
  \/ MainLoop
  \/ PumpFetched
  \/ DetailsFetched
  \/ SendDone
  \/ ProfilesFetched
  \/ PairsFetched
  \/ AltSendDone
  \/ Tick

Spec == Init /\ [][Next]_vars

\* The program without the clock, with calls of mainLoop arriving while a
\* round runs.
NextReentry ==
  \/ MainLoop
  \/ PumpFetched
  \/ DetailsFetched
  \/ SendDone
  \/ ProfilesFetched
  \/ PairsFetched
  \/ AltSendDone
  \/ StrayCall

SpecReentry == Init /\ [][NextReentry]_vars

\* ----------------------------------------------------------- the limiter
\* A candidate that passes the pre-filter.  The limiter does not look at
\* addresses, so the lists that fill it repeat one.
BurstCandidates(t) ==
  [tokenAddress : {"X"}, fullyDilutedValuation : {MidFloor}, createdAt : {t - PreFilterAge}]

\* lines 382-385 with a candidate list longer than the limiter's width
PumpBurst == PumpFetchedFrom(BurstCandidates(now), MaxBurst)

\* The program without the clock, fed lists of up to MaxBurst candidates.
NextLimit ==
  \/ MainLoop
  \/ PumpBurst
  \/ DetailsFetched
  \/ SendDone
  \/ ProfilesFetched
  \/ PairsFetched
  \/ AltSendDone

SpecLimit == Init /\ [][NextLimit]_vars

\* ------------------------------------------------- fixed creation times
\* Tokens created when the run starts, whose two feeds keep reporting that
\* creation time; the capitalization moves.
FixedCandidates == [tokenAddress : Tokens, fullyDilutedValuation : {MidFloor}, createdAt : {0}]
FixedSnapshots ==
  {Some(d) : d \in [marketCap : {Some(m) : m \in McapChoices}, pairCreatedAt : {None, Some(0)}]}
FixedSteps == {15, 110}

PumpFetchedFixed == PumpFetchedFrom(FixedCandidates, MaxTasks)
DetailsFetchedFixed == DetailsFetchedFrom(FixedSnapshots)
TickFixed == TickBy(FixedSteps)

NextFixed ==
  \/ MainLoop
  \/ PumpFetchedFixed
  \/ DetailsFetchedFixed
  \/ SendDone
  \/ ProfilesFetched
  \/ PairsFetched
  \/ AltSendDone
  \/ TickFixed

SpecFixed == Init /\ [][NextFixed]_vars

\* ------------------------------------------------------ the polling loop
\* The program without the clock.  A pending call of mainLoop is made (the
\* event loop runs due timers) and every outstanding external call returns
\* or fails.
NextLoop ==
  \/ MainLoop
  \/ PumpFetched
  \/ DetailsFetched
  \/ SendDone
  \/ ProfilesFetched
  \/ PairsFetched
  \/ AltSendDone

LoopFairness ==
  /\ WF_vars(MainLoop)
  /\ WF_vars(PumpFetched)
  /\ WF_vars(DetailsFetched)
  /\ WF_vars(SendDone)
  /\ WF_vars(ProfilesFetched)
  /\ WF_vars(PairsFetched)
  /\ WF_vars(AltSendDone)

SpecLoop == Init /\ [][NextLoop]_vars /\ LoopFairness

\* ------------------------------------------------ the secondary check
\* The program with longer profile lists and one candidate a round; call
\* follows the call of checkOtherDexTokens in progress and keeps the list
\* it was given and the addresses it has notified.
InitListing ==
  /\ Boot
  /\ call = [fn |-> "checkOtherDexTokens", listed |-> <<>>, notified |-> {}]

PumpFetchedOne == PumpFetchedFrom(Candidates(now), 1)

\* lines 421-424
ProfilesListed ==
  \E ps \in SeqsUpTo(Tokens, MaxListed) :
    /\ ProfilesArrive(ps)
    /\ call' = [call EXCEPT !.listed = ps, !.notified = {}]

\* lines 439-442
AltSendListed ==
  /\ AltSendSettles
  /\ call' = IF ev'.ok = None THEN call
             ELSE [call EXCEPT !.notified = @ \cup {ev'.ok[1].ca}]

NextListing ==
  \/ MainLoop
  \/ PumpFetchedOne
  \/ DetailsFetched
  \/ SendDone
  \/ ProfilesListed
  \/ PairsFetched
  \/ AltSendListed
  \/ Tick

SpecListing == InitListing /\ [][NextListing]_vars

\* ------------------------------------------------------------ feed calls
Fetchers == {"fetchNewMoralisTokens", "fetchDexscreenerDetails",
             "fetchLatestTokenProfiles", "fetchTokenPairs"}

\* line 285: if (i === retries - 1) throw err;
LastAttempt(i, retries) == i = retries - 1

\* the .catch of each fetcher: null for fetchDexscreenerDetails, [] for
\* the others
OnExhaustedRaise(fn) == "raised"
OnExhausted(fn) == IF fn = "fetchDexscreenerDetails" THEN "null" ELSE "empty"

\* The program suspended in a call of fetcher fn.
AwaitingFeed(fn) ==
  /\ now = 0
  /\ ticks = 0
  /\ trackedMidTier = <<>>
  /\ trackedHighTier = <<>>
  /\ pollInterval = DefaultInterval
  /\ isRunning = TRUE
  /\ timers = 0
  /\ pc = CASE fn = "fetchNewMoralisTokens" -> "pumpFetch"
            [] fn = "fetchDexscreenerDetails" -> "pumpAll"
            [] fn = "fetchLatestTokenProfiles" -> "otherFetch"
            [] fn = "fetchTokenPairs" -> "otherPairs"
  /\ running = IF fn = "fetchDexscreenerDetails"
               THEN SetToBag({[ca |-> "X", createdAt |-> 0 - PreFilterAge, st |-> "fetch",
                               hi |-> FALSE, cur |-> TRUE]})
               ELSE EmptyBag
  /\ queue = <<>>
  /\ sentCount = [pump |-> 0, other |-> 0]
  /\ profiles = IF fn = "fetchTokenPairs" THEN <<"X">> ELSE <<>>
  /\ ev = NoEvent
  /\ changed = FALSE

\* A feed call begins; outcomes[k] tells whether the k-th request would
\* succeed.
InitFeeds ==
  \E fn \in Fetchers, o \in [1..MaxOutcomes -> BOOLEAN] :
    /\ AwaitingFeed(fn)
    /\ call = [fn |-> fn, outcomes |-> o, i |-> 0, attempts |-> 0, waited |-> 0,
               st |-> "trying", result |-> "pending"]

\* lines 282-287: one pass of the loop of retry, and the .catch of the
\* fetcher when retry throws
Attempt ==
  /\ call.st = "trying"
  /\ call.i < Retries
  /\ call' =
       IF call.outcomes[call.i + 1]
       THEN [call EXCEPT !.attempts = @ + 1, !.st = "returned", !.result = "data"]
       ELSE IF LastAttempt(call.i, Retries)
       THEN [call EXCEPT !.attempts = @ + 1, !.st = "returned",
                         !.result = OnExhausted(call.fn)]
       ELSE [call EXCEPT !.attempts = @ + 1, !.i = @ + 1, !.waited = @ + RetryDelayMs]
  /\ UNCHANGED <<now, ticks, trackedMidTier, trackedHighTier, pollInterval, isRunning, timers, pc,
                 running, queue, sentCount, profiles, ev, changed>>

\* lines 392-393: fetchDexscreenerDetails hands its result to the task
\* (data?.[0] || null can be null after a successful request, too)
DetailsReturn ==
  /\ call.st = "returned"
  /\ call.fn = "fetchDexscreenerDetails"
  /\ call.result \in {"null", "data"}
  /\ \E task \in BagToSet(running),
        details \in IF call.result = "null" THEN {None} ELSE Snapshots(now) :
       /\ task.st = "fetch"
       /\ DetailsArrive(task, details)
  /\ call' = [call EXCEPT !.st = "resumed"]
  /\ UNCHANGED <<now, ticks, trackedMidTier, trackedHighTier, pollInterval, isRunning, timers,
                 sentCount, profiles, changed>>

NextFeeds ==
  \/ Attempt
  \/ DetailsReturn

SpecFeeds == InitFeeds /\ [][NextFeeds]_vars

\* ------------------------------------------------------- classification
\* Snapshots around the thresholds, for a candidate created at or just
\* past the pre-filter age.
ProbeCaps == {0, 16899, 16900, 16901, 79999, 80000, 80001}
ProbeAges == {0, 19, 20, 21, 119, 120, 121}
ProbeSnapshots(t) ==
  [marketCap : {None} \cup {Some(m) : m \in ProbeCaps},
   pairCreatedAt : {None, Some(NaN)} \cup {Some(t - a) : a \in ProbeAges}]

\* A task is about to classify the snapshot it was handed (line 393).
InitClassify ==
  \E d \in ProbeSnapshots(0), a \in CandidateAges :
    /\ AwaitingFeed("fetchDexscreenerDetails")
    /\ call = [fn |-> "classify", details |-> d, createdAt |-> 0 - a, st |-> "called",
               result |-> [mid |-> FALSE, high |-> FALSE]]

\* lines 395-400
Classified ==
  /\ call.st = "called"
  /\ call' = [call EXCEPT !.st = "done",
                          !.result = Classify(call.details, call.createdAt, now)]
  /\ UNCHANGED <<now, ticks, trackedMidTier, trackedHighTier, pollInterval, isRunning, timers, pc,
                 running, queue, sentCount, profiles, ev, changed>>

NextClassify == Classified

SpecClassify == InitClassify /\ [][NextClassify]_vars

\* ------------------------------------------------------------ properties
Tiers == {"Mid", "High"}
HasTier(tier, k) == IF tier = "Mid" THEN HasMid(k) ELSE HasHigh(k)
\* a notification of a per-token task of checkPumpTokens, of any round
TaskNotices(t, tier) == {Notice(t, tier, "task", c) : c \in BOOLEAN}
\* the per-token tasks suspended in the send of (t, tier)
Sending(t, tier) == {x \in BagToSet(running) : x.ca = t /\ x.st = tier}
InLedger(c, k) == \E i \in 1..Len(c) : c[i].key = k

\* C1: a per-token task of checkPumpTokens sends a notification for
\* (token, tier) only in a state where that tier's ledger has no live entry
\* for the token.
C1_NoResendWhileLive ==
  [][\A t \in Tokens, tier \in Tiers :
       ev'.send \in TaskNotices(t, tier) => ~HasTier(tier, t)]_vars

\* C1 witness: a round classified X as Mid while X's Mid entry was live, and
\* sent nothing.
C1_Witness ==
  /\ ev.skip = Notice("X", "Mid", "task", TRUE)
  /\ ev.send = None
  /\ HasMid("X")

\* C2: a ledger changes only in the step in which a delivery for that tier
\* succeeded, and the entry written is the delivered token's; a step in
\* which a delivery failed leaves both ledgers as they were.
C2_RecordOnlyAfterDelivery ==
  [][/\ trackedMidTier' # trackedMidTier =>
          /\ ev'.ok # None
          /\ ev'.ok[1].tier = "Mid"
          /\ trackedMidTier' = CacheSet(trackedMidTier, ev'.ok[1].ca, now)
     /\ trackedHighTier' # trackedHighTier =>
          /\ ev'.ok # None
          /\ ev'.ok[1].tier = "High"
          /\ trackedHighTier' = CacheSet(trackedHighTier, ev'.ok[1].ca, now)
     /\ ev'.fail # None => UNCHANGED <<trackedMidTier, trackedHighTier>>]_vars

\* C2 witness: the Mid delivery for X failed and X has no Mid entry.
C2_Witness ==
  /\ ev.fail = GivenUp("X", "Mid", "task", TRUE)
  /\ ~InLedger(trackedMidTier, "X")

\* C3: when a High delivery succeeds for a token that has a live Mid entry,
\* the token is afterwards in the High set and not in the Mid set.
C3_PromotionRemovesMid ==
  [][\A t \in Tokens :
       (ev'.ok \in TaskNotices(t, "High") /\ HasMid(t)) =>
          (HasHigh(t)' /\ ~HasMid(t)')]_vars

\* C4: while a token has a live High entry, no Mid notification is sent for
\* it and its Mid entry is not written.
C4_NoMidAfterHigh ==
  [][\A t \in Tokens :
       HasHigh(t) =>
          /\ ev'.send \notin TaskNotices(t, "Mid")
          /\ ev'.ok \notin TaskNotices(t, "Mid")]_vars

\* C5: for a token with no entry in either ledger, a second notification
\* for the same (token, tier) is not attempted while the first is under way.
C5_ExactlyOneAttempt ==
  [][\A t \in Tokens, tier \in Tiers :
       (/\ ev'.send \in TaskNotices(t, tier)
        /\ ~InLedger(trackedMidTier, t)
        /\ ~InLedger(trackedHighTier, t)) => Sending(t, tier) = {}]_vars

\* C6: a notification that is given up was attempted exactly twice.
C6_RetriedOnce == ev.fail # None => ev.fail[1].attempts = 2

\* C7: a failed delivery of a notification of the round in progress does
\* not end the round: the step of the failure is not the catch of mainLoop.
C7_FailureNonFatal == (ev.fail # None /\ ev.fail[1].cur) => (ev.end # "error" /\ isRunning)

\* C8: when a round has ended, pollInterval is 15000 if the round sent at
\* least 2 notifications and 30000 otherwise.
C8_DelayFromLastRound ==
  ev.end # "none" =>
    pollInterval = IF ev.sent >= 2 THEN FastInterval ELSE DefaultInterval

\* C9: when a round ended by an exception, the next round is scheduled at
\* the default interval.
C9_ErrorRoundDefaultDelay == ev.end = "error" => pollInterval = DefaultInterval

\* C10: when a round ended by an exception, the ledgers hold what they held
\* when the round began.
C10_ErrorRoundLeavesLedger == ev.end = "error" => ~changed

\* C11: a call of mainLoop starts a round only when none is running; a
\* call during a round returns at the guard and changes nothing; and no
\* call of mainLoop is pending while a round runs.
C11_SingleRound ==
  /\ [](isRunning => pc # "timer")
  /\ [][/\ ev'.call = "started" => ~isRunning
        /\ ev'.call = "returned" =>
             /\ isRunning
             /\ UNCHANGED <<now, trackedMidTier, trackedHighTier, pollInterval, isRunning, timers,
                            pc, running, queue, sentCount, profiles, changed>>]_vars

\* C11 witness: mainLoop was called while the round awaited its tasks, and
\* returned.
C11_Witness ==
  /\ ev.call = "returned"
  /\ isRunning
  /\ pc = "pumpAll"
  /\ running # EmptyBag

\* C12: when a round is marked finished, and when the next round begins
\* fetching, no per-token task is still running or queued.
C12_RoundWaitsForTasks ==
  (ev.end # "none" \/ pc = "pumpFetch") => (running = EmptyBag /\ queue = <<>>)

\* The number of running tasks of the round in progress that process
\* address t.
RoundTasksOn(t) ==
  LET S == {x \in BagToSet(running) : x.ca = t /\ x.cur}
  IN BagCardinality([x \in S |-> running[x]])

\* C13: within one round no token address is processed by two per-token
\* tasks at the same time, whatever candidate list the discovery feed
\* returned.
C13_OneTaskPerAddress == \A t \in Tokens : RoundTasksOn(t) <= 1

\* The first request of a feed call that succeeds among those retry can
\* make, 0 when there is none.
FirstSuccess(o, n) ==
  IF \E k \in 1..n : o[k] THEN CHOOSE k \in 1..n : o[k] /\ \A j \in 1..(k - 1) : ~o[j]
  ELSE 0

\* C14: a feed call makes at most 3 attempts, 500 ms apart, and stops at
\* the first success; when all 3 fail it returns the empty list (the absent
\* marker for fetchDexscreenerDetails) and never raises; a task that gets
\* the absent marker ends with no notification and no ledger change.
C14_BoundedRetry ==
  /\ [](call.attempts <= 3)
  /\ [](call.st # "trying" =>
          LET k == FirstSuccess(call.outcomes, 3)
          IN IF k # 0
             THEN /\ call.attempts = k
                  /\ call.waited = 500 * (k - 1)
                  /\ call.result = "data"
             ELSE /\ call.attempts = 3
                  /\ call.waited = 1000
                  /\ call.result = IF call.fn = "fetchDexscreenerDetails" THEN "null"
                                   ELSE "empty")
  /\ [][(call'.st = "resumed" /\ call.result = "null") =>
          /\ ev'.send = None
          /\ running' = EmptyBag
          /\ UNCHANGED <<trackedMidTier, trackedHighTier, sentCount>>]_vars

\* C14 witness: fetchDexscreenerDetails failed three times, returned the
\* absent marker, and the task ended.
C14_Witness ==
  /\ call.fn = "fetchDexscreenerDetails"
  /\ call.st = "resumed"
  /\ call.result = "null"
  /\ call.attempts = 3
  /\ running = EmptyBag

\* The tier a classification stands for.
Decided(c) == IF c.high THEN "High" ELSE IF c.mid THEN "Mid" ELSE "None"

\* C15: for a snapshot with a market capitalization and a creation time,
\* the tier decided is High when cap >= 80000 and age <= 120, else Mid when
\* 16900 <= cap < 80000 and age <= 20, else None.
C15_TierPolicy ==
  (/\ call.st = "done"
   /\ call.details.marketCap # None
   /\ call.details.pairCreatedAt \notin {None, Some(NaN)}) =>
    LET cap == call.details.marketCap[1]
        age == now - call.details.pairCreatedAt[1]
    IN Decided(call.result) =
         IF cap >= 80000 /\ age <= 120 THEN "High"
         ELSE IF cap >= 16900 /\ cap < 80000 /\ age <= 20 THEN "Mid"
         ELSE "None"

\* C15 witness: a capitalization at the Mid floor with an age at the Mid
\* ceiling was classified Mid.
C15_Witness ==
  /\ call.st = "done"
  /\ call.details.marketCap = Some(16900)
  /\ call.details.pairCreatedAt = Some(now - 20)
  /\ Decided(call.result) = "Mid"

\* C19: a snapshot whose pair-creation timestamp is no date is classified
\* as the same snapshot without the timestamp is.
C19_UnparsableAsAbsent ==
  (call.st = "done" /\ call.details.pairCreatedAt = Some(NaN)) =>
    call.result = Classify([call.details EXCEPT !.pairCreatedAt = None], call.createdAt, now)

\* The timestamp stored for key k in cache c.
StartOf(c, k) == c[CHOOSE i \in 1..Len(c) : c[i].key = k].start

\* C16: the timestamp of a live ledger entry never changes: recording a
\* notification for a (token, tier) pair that has a live entry leaves the
\* entry as its first insertion made it.
C16_FirstWriteWins ==
  [][\A t \in Tokens :
       /\ HasMid(t) => (InLedger(trackedMidTier', t)
                         /\ StartOf(trackedMidTier', t) = StartOf(trackedMidTier, t))
       /\ HasHigh(t) => (InLedger(trackedHighTier', t)
                          /\ StartOf(trackedHighTier', t) = StartOf(trackedHighTier, t))]_vars

\* Whether the ledger of the tier holds an entry for t that is no older
\* than the tier's retention window, 20 minutes for Mid and 120 for High.
Ledger(tier) == IF tier = "Mid" THEN trackedMidTier ELSE trackedHighTier
Window(tier) == IF tier = "Mid" THEN 20 ELSE 120
WithinWindow(t, tier) ==
  InLedger(Ledger(tier), t) /\ now - StartOf(Ledger(tier), t) <= Window(tier)

\* C17: a ledger query of checkPumpTokens reports an entry present exactly
\* when it is no older than its tier's retention window: a task passes a
\* notification over only for an entry within the window, and sends when
\* the ledger has no entry or one older than the window, removed or not.
C17_ExpiryByAge ==
  [][\A t \in Tokens, tier \in Tiers :
       /\ ev'.skip \in TaskNotices(t, tier) => WithinWindow(t, tier)
       /\ ev'.send \in TaskNotices(t, tier) => ~WithinWindow(t, tier)]_vars

\* C17 witness: a Mid notification for X is being sent while the Mid
\* ledger still holds X's entry, older than 20 minutes.
C17_Witness ==
  /\ ev.send = Notice("X", "Mid", "task", TRUE)
  /\ InLedger(trackedMidTier, "X")
  /\ now - StartOf(trackedMidTier, "X") > 20

\* C18: at most 5 per-token tasks of checkPumpTokens are running at any
\* moment, so at most 5 snapshot fetches are outstanding; a waiting task
\* starts only in a step in which a running one settles.
C18_AtMostFiveRunning ==
  /\ [](BagCardinality(running) <= 5)
  /\ [][Len(queue') < Len(queue) =>
          BagCardinality(running') <= BagCardinality(running)]_vars

\* C18 witness: five tasks are running and a sixth waits in the limiter.
C18_Witness ==
  /\ BagCardinality(running) = 5
  /\ Len(queue) = 1

\* C20: a token whose creation time does not change gets at most one Mid
\* and at most one High notification from checkPumpTokens over the whole
\* run: a task sends for (token, tier) only when the tier's ledger never
\* held the token and no other task is sending the same notification.
C20_AtMostOncePerTier ==
  [][\A t \in Tokens, tier \in Tiers :
       ev'.send \in TaskNotices(t, tier) =>
         /\ ~InLedger(Ledger(tier), t)
         /\ Sending(t, tier) = {}]_vars

OtherNotice(t) == Notice(t, "Mid", "other", TRUE)

\* A pair fetch begins for the profile at the head of profiles.
PairFetchBegins ==
  /\ pc' = "otherPairs"
  /\ pc # "otherPairs" \/ profiles' # profiles

\* C21: checkOtherDexTokens fetches the pairs of a profile only when
\* neither ledger has a live entry for its token, and notifies only the
\* profile whose pairs it fetched; a delivered notification is recorded in
\* the Mid ledger in the same step and ends the profile; and no address is
\* notified twice in one round.
C21_SecondaryOncePerRound ==
  [][/\ PairFetchBegins =>
          /\ ~Has(trackedMidTier', MidTtl, Head(profiles'), now')
          /\ ~Has(trackedHighTier', HighTtl, Head(profiles'), now')
     /\ \A t \in Tokens :
          /\ ev'.send = OtherNotice(t) =>
               /\ pc = "otherPairs"
               /\ Head(profiles) = t
               /\ t \notin call.notified
          /\ ev'.ok = OtherNotice(t) =>
               /\ InLedger(trackedMidTier', t)
               /\ StartOf(trackedMidTier', t) = now
               /\ (profiles' = <<>> \/ Len(profiles') < Len(profiles))]_vars

\* C21 as the code has it: the same, except that an address listed again
\* is notified again in the round when the Mid entry of its first
\* notification is older than 20 minutes by then.
C21_SecondaryOncePerWindow ==
  [][/\ PairFetchBegins =>
          /\ ~Has(trackedMidTier', MidTtl, Head(profiles'), now')
          /\ ~Has(trackedHighTier', HighTtl, Head(profiles'), now')
     /\ \A t \in Tokens :
          /\ ev'.send = OtherNotice(t) =>
               /\ pc = "otherPairs"
               /\ Head(profiles) = t
               /\ t \in call.notified => now - StartOf(trackedMidTier, t) > 20
          /\ ev'.ok = OtherNotice(t) =>
               /\ InLedger(trackedMidTier', t)
               /\ StartOf(trackedMidTier', t) = now
               /\ (profiles' = <<>> \/ Len(profiles') < Len(profiles))]_vars

\* C21 witness: of the list X, X, Y the first X was notified and recorded,
\* the second X was passed over and the pairs of Y are being fetched.
C21_Witness ==
  /\ call.listed = <<"X", "X", "Y">>
  /\ call.notified = {"X"}
  /\ ev.ok = OtherNotice("X")
  /\ HasMid("X")
  /\ profiles = <<"Y">>
  /\ pc = "otherPairs"

\* C22: the polling loop never stops and never forks: every round ends,
\* normally or by a caught exception, with isRunning reset and one more
\* call of mainLoop pending; a next round always starts; and never more
\* than one call is pending.
C22_LoopNeverStopsNorForks ==
  /\ [](timers <= 1)
  /\ [][(isRunning /\ ~isRunning') => timers' = timers + 1]_vars
  /\ (isRunning ~> ~isRunning)
  /\ (~isRunning ~> isRunning)

\* C22 witness: a round has ended by a caught exception, isRunning is
\* reset and one call of mainLoop is pending.
C22_Witness ==
  /\ ev.end = "error"
  /\ ~isRunning
  /\ timers = 1

TypeOK ==
  /\ pc \in {"timer", "pumpFetch", "pumpAll", "otherFetch", "otherPairs", "otherSend"}
  /\ isRunning \in BOOLEAN
  /\ pollInterval \in {FastInterval, DefaultInterval}
  /\ isRunning <=> pc # "timer"

====
